---- MODULE Spec2Model ----
(***************************************************************************)
(* Model of ToMoon's backend control plane (backend/src/control.rs):       *)
(*   - Clash: the process supervisor (run, stop, update_config_path),      *)
(*     its config transformer (change_config) and rule-provider            *)
(*     downloader (downlaod_proxy_providers);                              *)
(*   - ControlRuntime::run: the startup health check and the settings      *)
(*     persistence loop, run against settings writers.                     *)
(***************************************************************************)
EXTENDS Integers, Sequences, FiniteSets, TLC

VARIABLES
    \* ---- Clash (control.rs 161-165) and the world it acts on
    path,            \* Clash.path: the executable
    config,          \* Clash.config: the target config path
    instence,        \* Clash.instence: Option<Child>, None or Some(pid)
    live,            \* pids of spawned processes that have not terminated
    reaped,          \* pids whose exit status has been collected by wait()
    nextPid,         \* the pid the next successful spawn gets
    runningConfig,   \* content of bin/core/running_config.yaml
    providerFiles,   \* content of the files the downloader writes
    callNo,          \* parity of the number of Clash method calls so far
    lastCall,        \* the Clash method called last
    hadHandle,       \* whether instence was Some when that call started
    effects,         \* the external operations that call performed, in order
    ret,             \* what that call returned
    \* ---- ControlRuntime (control.rs 14-20, 84-150)
    settings,        \* Settings behind its RwLock: [enable, ver]
    dirty,           \* State.dirty behind its RwLock
    disk,            \* content of the settings file
    settingsPoisoned,\* the Settings lock is poisoned
    statePoisoned,   \* the State lock is poisoned
    pc,              \* position of ControlRuntime::run / the loop thread
    observed,        \* state.dirty as this iteration of the loop read it
    snapshot,        \* the loop's settings_json of this iteration
    iterEnd,         \* how the loop's last finished iteration ended
    saveOk,          \* whether this iteration's save() succeeded
    locks,           \* the lock guards the loop thread holds
    probe,           \* what is_clash_running() returned in the health check
    enable0,         \* Settings.enable as loaded by ControlRuntime::new
    resets,          \* calls of helper::reset_system_network
    resetFailed,     \* a call of reset_system_network returned Err
    writes,          \* save() calls since dirty was last cleared
    wpc,             \* position of each settings writer
    wver,            \* the version each writer's mutation produced
    marked,          \* highest version whose writer has set dirty
    \* ---- harness of the transformer and the downloader
    tIn,             \* the call's inputs
    tOut,            \* the call's results
    tAgain           \* the results of a second call, made on the first's output

supVars == <<path, config, instence, live, reaped, nextPid, runningConfig,
             providerFiles, callNo, lastCall, hadHandle, effects, ret>>
rtVars == <<settings, dirty, disk, settingsPoisoned, statePoisoned, pc,
            observed, snapshot, iterEnd, saveOk, locks, probe, enable0, resets,
            resetFailed, writes, wpc, wver, marked>>
tVars == <<tIn, tOut, tAgain>>
lockVars == <<settingsPoisoned, statePoisoned>>
loopLocals == <<observed, snapshot, saveOk, locks>>
healthVars == <<probe, enable0, resets, resetFailed>>
writerVars == <<wpc, wver, marked>>
vars == <<supVars, rtVars, tVars>>

\* Option<Child>: None, or Some(pid)
None == <<>>
Some(p) == <<p>>

(***************************************************************************)
(* Bounds of the model.                                                    *)
(***************************************************************************)
MaxSpawns == 2       \* successful spawns in one behaviour
MaxVer == 2          \* settings mutations in one behaviour
MaxEntries == 2      \* entries of a generated rule-providers mapping
NumWriters == 2      \* concurrent settings writers
MaxRules == 2        \* rules of a generated rules list

(***************************************************************************)
(* YAML values (serde_yaml::Value), tagged so that values of different     *)
(* shapes can be compared.                                                 *)
(***************************************************************************)
\* A string is the sequence of its characters; S(x) is a string whose text is
\* never looked into, held as the one chunk x.
Str(s) == [t |-> "str", v |-> s]
S(x) == Str(<<x>>)
SeqV(s) == [t |-> "seq", v |-> s]
MapV(m) == [t |-> "map", v |-> m]
Num == [t |-> "num", v |-> <<"7890">>]
Bool(b) == [t |-> "bool", v |-> b]

\* serde_yaml::Mapping: an ordered list of <<key, value>> with distinct keys.
RECURSIVE IndexOf(_, _, _)
IndexOf(m, k, i) ==
    IF i > Len(m) THEN 0
    ELSE IF m[i][1] = k THEN i
    ELSE IndexOf(m, k, i + 1)

Has(m, k) == IndexOf(m, k, 1) # 0
Get(m, k) == m[IndexOf(m, k, 1)][2]

\* Mapping::insert: replaces the value of an existing key in place, else appends.
Insert(m, k, val) ==
    IF Has(m, k)
    THEN [m EXCEPT ![IndexOf(m, k, 1)] = <<k, val>>]
    ELSE Append(m, <<k, val>>)

\* Mapping::remove
Remove(m, k) ==
    LET i == IndexOf(m, k, 1)
    IN  IF i = 0 THEN m ELSE SubSeq(m, 1, i - 1) \o SubSeq(m, i + 1, Len(m))

\* Value::get(&str): None unless the value is a mapping holding the key.
ValueHas(val, k) == val.t = "map" /\ Has(val.v, k)
ValueGet(val, k) == Get(val.v, k)

(***************************************************************************)
(* YAML text. A scalar is written plain unless, read back plain, it would   *)
(* resolve to something other than the string it is; then it is quoted.    *)
(***************************************************************************)
\* What a plain scalar resolves to when read.
Resolve(text) ==
    IF text = <<"true">> THEN Bool(TRUE)
    ELSE IF text = <<"false">> THEN Bool(FALSE)
    ELSE IF text = Num.v THEN Num
    ELSE Str(text)

\* serde_yaml::to_string
RECURSIVE to_string(_)
to_string(val) ==
    CASE val.t = "str" ->
            [y |-> "scalar", quoted |-> Resolve(val.v).t # "str", text |-> val.v]
      [] val.t = "num" -> [y |-> "scalar", quoted |-> FALSE, text |-> val.v]
      [] val.t = "bool" ->
            [y |-> "scalar", quoted |-> FALSE,
             text |-> IF val.v THEN <<"true">> ELSE <<"false">>]
      [] val.t = "seq" ->
            [y |-> "seq",
             items |-> [i \in 1..Len(val.v) |-> to_string(val.v[i])]]
      [] val.t = "map" ->
            [y |-> "map",
             items |-> [i \in 1..Len(val.v) |->
                          <<val.v[i][1], to_string(val.v[i][2])>>]]

\* serde_yaml::from_str, on text that parses
RECURSIVE from_str(_)
from_str(text) ==
    CASE text.y = "scalar" ->
            IF text.quoted THEN Str(text.text) ELSE Resolve(text.text)
      [] text.y = "seq" ->
            SeqV([i \in 1..Len(text.items) |-> from_str(text.items[i])])
      [] text.y = "map" ->
            MapV([i \in 1..Len(text.items) |->
                    <<text.items[i][1], from_str(text.items[i][2])>>])

(***************************************************************************)
(* Rule-Provider Downloader: Clash::downlaod_proxy_providers               *)
(***************************************************************************)
ProvidersRoot == <<"/", "R", "/">>      \* "/root/.config/clash/"

\* regex ^\./ replaced by "" : Regex::replace replaces the first match only.
StripDotSlash(p) ==
    IF Len(p) >= 2 /\ p[1] = "." /\ p[2] = "/" THEN SubSeq(p, 3, Len(p)) ELSE p

\* PathBuf::join: an absolute argument replaces the base.
PathJoin(base, p) ==
    IF Len(p) >= 1 /\ p[1] = "/" THEN p ELSE base \o p

SavePath(p) == PathJoin(ProvidersRoot, StripDotSlash(p))

\* What one entry's fetch-and-save meets, in the order the code gets there.
FetchOutcomes == {"ok", "send_err", "decode_err", "mkdir_err", "write_err"}

\* A file of the providers directory: absent, or holding a body.
NoFile == [exists |-> FALSE, body |-> <<>>]
File(b) == [exists |-> TRUE, body |-> b]

\* The response body served for a url.
Body(url) == File(url)

\* One step of the for loop, over entry i of the mapping. acc is
\* [res, files, fetched, written, saved]: the result so far, the files on
\* disk, the entries fetched and written, in order, and the save_path of each
\* entry written.
RECURSIVE DownlaodFrom(_, _, _, _)

\* lines 477-485: minreq's send() failed: return Err(RuleProviderDownloadError)
SendFailedSwallowed(i, yaml, outs, acc) == acc
SendFailed(i, yaml, outs, acc) ==
    [acc EXCEPT !.res = "RuleProviderDownloadError"]

\* lines 464-474: fs::write failed: return Err(RuleProviderDownloadError)
SaveFailedGoesOn(i, yaml, outs, acc) ==
    DownlaodFrom(i + 1, yaml, outs,
                 [acc EXCEPT !.res = "RuleProviderDownloadError"])
SaveFailed(i, yaml, outs, acc) ==
    [acc EXCEPT !.res = "RuleProviderDownloadError"]

DownlaodFrom(i, yaml, outs, acc) ==
    IF i > Len(yaml) THEN acc
    ELSE LET value == yaml[i][2] IN
      IF ~(ValueHas(value, "url") /\ ValueHas(value, "path"))
      THEN DownlaodFrom(i + 1, yaml, outs, acc)
      ELSE LET url == ValueGet(value, "url")
               pth == ValueGet(value, "path")
               fetchedNow == [acc EXCEPT !.fetched = Append(@, i)]
           IN
        IF url.t # "str" THEN [acc EXCEPT !.res = "Panic"]
        ELSE IF outs[i] = "send_err" THEN SendFailed(i, yaml, outs, fetchedNow)
        ELSE IF outs[i] = "decode_err"
        THEN [fetchedNow EXCEPT !.res = "RuleProviderDownloadError"]
        ELSE IF pth.t # "str" THEN [fetchedNow EXCEPT !.res = "Panic"]
        ELSE IF outs[i] = "mkdir_err"
        THEN [fetchedNow EXCEPT !.res = "RuleProviderDownloadError"]
        ELSE IF outs[i] = "write_err" THEN SaveFailed(i, yaml, outs, fetchedNow)
        ELSE DownlaodFrom(i + 1, yaml, outs,
                 [fetchedNow EXCEPT
                     !.files = [@ EXCEPT ![SavePath(pth.v)] = Body(url.v)],
                     !.written = Append(@, i),
                     !.saved = Append(@, SavePath(pth.v))])

downlaod_proxy_providers(yaml, outs, files) ==
    DownlaodFrom(1, yaml, outs,
        [res |-> "Ok", files |-> files, fetched |-> <<>>, written |-> <<>>,
         saved |-> <<>>])

(***************************************************************************)
(* Config Transformer: Clash::change_config                                *)
(***************************************************************************)
ExternalController == S("127.0.0.1:9090")
BypassRule == S("DOMAIN,test.steampowered.com,DIRECT")
WebuiDir == S("<cwd>/bin/core/web")

\* tun_config, dns_config, profile_config as serde_yaml::from_str reads them
TunConfig ==
    MapV(<< <<"enable", Bool(TRUE)>>, <<"stack", S("system")>>,
            <<"auto-route", Bool(TRUE)>>, <<"auto-detect-interface", Bool(TRUE)>> >>)
DnsConfig ==
    MapV(<< <<"enable", Bool(TRUE)>>, <<"listen", S("0.0.0.0:53")>>,
            <<"enhanced-mode", S("fake-ip")>>, <<"fake-ip-range", S("198.18.0.1/16")>>,
            <<"nameserver", SeqV(<<S("tcp://127.0.0.1:5353")>>)>> >>)
ProfileConfig ==
    MapV(<< <<"store-selected", Bool(TRUE)>>, <<"store-fake-ip", Bool(FALSE)>> >>)

\* match yaml.get_mut(key) { Some(x) => *x = val, None => yaml.insert(key, val) }
SetOrInsert(yaml, k, val) ==
    IF Has(yaml, k)
    THEN [yaml EXCEPT ![IndexOf(yaml, k, 1)] = <<k, val>>]
    ELSE Insert(yaml, k, val)

\* match yaml.get(key) { Some(_) => { yaml.remove(key); insert_config(..) },
\*                       None => insert_config(..) }
RECURSIVE InsertAll(_, _, _)
InsertAll(m, entries, i) ==
    IF i > Len(entries) THEN m
    ELSE InsertAll(Insert(m, entries[i][1], entries[i][2]), entries, i + 1)
ReplaceBlockMerged(yaml, k, block) ==
    IF Has(yaml, k) /\ Get(yaml, k).t = "map"
    THEN Insert(yaml, k, MapV(InsertAll(Get(yaml, k).v, block.v, 1)))
    ELSE Insert(yaml, k, block)
ReplaceBlockRemovesOnly(yaml, k, block) ==
    IF Has(yaml, k) THEN Remove(yaml, k) ELSE Insert(yaml, k, block)
ReplaceBlock(yaml, k, block) ==
    IF Has(yaml, k)
    THEN Insert(Remove(yaml, k), k, block)
    ELSE Insert(yaml, k, block)

\* lines 317-323: the bypass rule goes in at index 0 of an existing rules list
InsertBypassRuleIfAbsent(yaml) ==
    LET i == IndexOf(yaml, "rules", 1)
        rules == yaml[i][2].v
    IN  IF \E j \in 1..Len(rules) : rules[j] = BypassRule
        THEN yaml
        ELSE [yaml EXCEPT ![i] = <<"rules", SeqV(<<BypassRule>> \o rules)>>]
InsertBypassRule(yaml) ==
    LET i == IndexOf(yaml, "rules", 1)
    IN  [yaml EXCEPT ![i] = <<"rules", SeqV(<<BypassRule>> \o yaml[i][2].v)>>]

\* lines 338-414: external-ui, then the tun, dns and profile blocks
FinishDocument(yaml) ==
    LET y1 == SetOrInsert(yaml, "external-ui", WebuiDir)
        y2 == ReplaceBlock(y1, "tun", TunConfig)
        y3 == ReplaceBlock(y2, "dns", DnsConfig)
    IN  ReplaceBlock(y3, "profile", ProfileConfig)

NoDownload(files) ==
    [res |-> "NotCalled", files |-> files, fetched |-> <<>>, written |-> <<>>,
     saved |-> <<>>]

\* file is the content of the file at self.config: [k |-> "missing"],
\* [k |-> "garbage"] (not YAML) or [k |-> "yaml", doc |-> the value that
\* serde_yaml::from_str reads from it].
\* outs are the downloader's fetch outcomes, writeOk whether the final
\* fs::write succeeds. The result is [res, running, files, dl]: the value
\* returned ("Ok", an error kind, or "Panic"), the running-config file and the
\* provider files afterwards, and what the downloader did.
change_config(file, outs, writeOk, running, files) ==
    LET unchanged(r) ==
            [res |-> r, running |-> running, files |-> files,
             dl |-> NoDownload(files)]
    IN
    IF file.k = "missing" THEN unchanged("IoError")
    ELSE IF file.k = "garbage" THEN unchanged("YamlError")
    ELSE IF file.doc.t # "map" THEN unchanged("Panic")
    ELSE
      LET y0 == file.doc.v
          y1 == SetOrInsert(y0, "external-controller", ExternalController)
      IN
      IF Has(y1, "rules") /\ Get(y1, "rules").t # "seq" THEN unchanged("Panic")
      ELSE
        LET y2 == IF Has(y1, "rules") THEN InsertBypassRule(y1) ELSE y1
            hasProviders == Has(y2, "rule-providers")
        IN
        IF hasProviders /\ Get(y2, "rule-providers").t # "map"
        THEN unchanged("Panic")
        ELSE
          LET dl == IF hasProviders
                    THEN downlaod_proxy_providers(
                             Get(y2, "rule-providers").v, outs, files)
                    ELSE NoDownload(files)
              files2 == IF hasProviders THEN dl.files ELSE files
          IN
          IF hasProviders /\ dl.res # "Ok"
          THEN [res |-> dl.res, running |-> running, files |-> files2, dl |-> dl]
          ELSE IF ~writeOk
          THEN [res |-> "IoError", running |-> running, files |-> files2, dl |-> dl]
          ELSE [res |-> "Ok",
                running |-> File(to_string(MapV(FinishDocument(y2)))),
                files |-> files2, dl |-> dl]

(***************************************************************************)
(* The files change_config can be pointed at, and the provider paths.      *)
(***************************************************************************)
Missing == [k |-> "missing"]
Garbage == [k |-> "garbage"]
Yaml(val) == [k |-> "yaml", doc |-> val]

P_DotA == <<".", "/", "a">>                \* "./a"
P_A == <<"a">>                            \* "a"
P_DotSubA == <<".", "/", "x", "/", "a">>  \* "./x/a"
P_DotDotA == <<".", "/", ".", "/", "a">>  \* "././a"
P_UpA == <<".", ".", "/", "a">>           \* "../a"
P_AbsE == <<"/", "e">>                    \* "/e"

PathStrings == {P_DotA, P_A, P_DotSubA, P_DotDotA, P_UpA, P_AbsE}
SavePaths == {SavePath(p) : p \in PathStrings}

Entry(url, pth) == MapV(<< <<"url", url>>, <<"path", pth>> >>)
UrlOnly(url) == MapV(<< <<"url", url>>, <<"behavior", S("domain")>> >>)
PathOnly(pth) == MapV(<< <<"path", pth>> >>)

OldBlock == MapV(<< <<"enable", Bool(FALSE)>>, <<"old", S("x")>> >>)

PlainDoc == MapV(<< <<"port", Num>> >>)
FullDoc ==
    MapV(<< <<"tun", OldBlock>>, <<"port", Num>>,
            <<"external-controller", S("0.0.0.0:9090")>>,
            <<"rules", SeqV(<<S("r1"), S("r2")>>)>>,
            <<"dns", OldBlock>>, <<"external-ui", S("ui")>>,
            <<"profile", OldBlock>> >>)
ProviderDoc ==
    MapV(<< <<"port", Num>>,
            <<"rule-providers",
              MapV(<< <<"p1", UrlOnly(S("u0"))>>,
                      <<"p2", Entry(S("u1"), Str(P_DotA))>> >>)>> >>)

ConfigPaths == {"missing", "garbage", "scalar", "plain", "full", "providers"}

ConfigFile(p) ==
    CASE p = "missing" -> Missing
      [] p = "garbage" -> Garbage
      [] p = "scalar" -> Yaml(S("hello"))
      [] p = "plain" -> Yaml(PlainDoc)
      [] p = "full" -> Yaml(FullDoc)
      [] p = "providers" -> Yaml(ProviderDoc)

\* The rule-providers mapping of a file, <<>> when change_config does not get
\* to the downloader.
ProvidersOf(file) ==
    IF file.k = "yaml" /\ file.doc.t = "map" /\ Has(file.doc.v, "rule-providers")
       /\ Get(file.doc.v, "rule-providers").t = "map"
    THEN Get(file.doc.v, "rule-providers").v
    ELSE <<>>

\* The fetch outcomes to consider for a providers mapping: one for each entry,
\* "ok" for the entries the loop skips.
OutcomesFor(yaml) ==
    {o \in [1..Len(yaml) -> FetchOutcomes] :
        \A i \in 1..Len(yaml) :
            ~(ValueHas(yaml[i][2], "url") /\ ValueHas(yaml[i][2], "path"))
                => o[i] = "ok"}

NoFiles == [p \in SavePaths |-> NoFile]

(***************************************************************************)
(* Process Supervisor: Clash::run, Clash::stop, Clash::update_config_path  *)
(***************************************************************************)
Pids == 1..MaxSpawns

\* One external operation of a call and how it ended: "ok", "err" (an Err the
\* code handles) or "panic" (an unwrap on an Err).
E(op, out) == [op |-> op, out |-> out]

\* The steps of run after update_config_path, lines 220-264. ccRes is what
\* change_config returned; logOk, spawnOk, netOk are whether File::create of
\* the log file (unwrapped, line 234), Command::spawn and
\* helper::set_system_network succeed. spawn: a child was spawned; store: it
\* was put in self.instence.
\* How change_config ended, as run sees it.
TransformOut(ccRes) ==
    IF ccRes = "Ok" THEN "ok" ELSE IF ccRes = "Panic" THEN "panic" ELSE "err"

\* lines 220-228: match self.change_config() { Ok(_) => (), Err(e) => return .. }
TransformErrIgnored(ccRes) == FALSE
TransformErr(ccRes) == TransformOut(ccRes) = "err"

RunSteps(ccRes, logOk, spawnOk, netOk) ==
    LET t == E("transform", TransformOut(ccRes)) IN
    IF ccRes = "Panic"
    THEN [ret |-> "Panic", effects |-> <<t>>, spawn |-> FALSE, store |-> FALSE]
    ELSE IF TransformErr(ccRes)
    THEN [ret |-> "ConfigFormatError", effects |-> <<t>>,
          spawn |-> FALSE, store |-> FALSE]
    ELSE IF ~logOk
    THEN [ret |-> "Panic", effects |-> <<t, E("spawn", "panic")>>,
          spawn |-> FALSE, store |-> FALSE]
    ELSE IF ~spawnOk
    THEN [ret |-> "Default", effects |-> <<t, E("spawn", "err")>>,
          spawn |-> FALSE, store |-> FALSE]
    ELSE [ret |-> IF netOk THEN "Ok" ELSE "NetworkError",
          effects |-> <<t, E("spawn", "ok"), E("store", "ok"),
                        E("net_apply", IF netOk THEN "ok" ELSE "err")>>,
          spawn |-> TRUE, store |-> TRUE]

\* self.instence = Some(child) drops the Child held before; dropping a
\* std::process::Child neither kills nor waits for the process.
LiveAfterStore(running, old, pid) == running \cup {pid}

\* run(config_path). What the world answers is drawn inside: outs and writeOk
\* for change_config, then logOk, spawnOk and netOk.
Run(config_path) ==
    \E outs \in OutcomesFor(ProvidersOf(ConfigFile(config_path))) :
    \E writeOk \in BOOLEAN :
    \E cc \in {change_config(ConfigFile(config_path), outs, writeOk,
                              runningConfig, providerFiles)} :
    \E logOk, spawnOk, netOk \in BOOLEAN :
    \E r \in {RunSteps(cc.res, logOk, spawnOk, netOk)} :
        /\ r.spawn => nextPid <= MaxSpawns
        /\ callNo' = 1 - callNo
        /\ lastCall' = "run"
        /\ hadHandle' = (instence # None)
        /\ config' = config_path
        /\ runningConfig' = cc.running
        /\ providerFiles' = cc.files
        /\ effects' = r.effects
        /\ ret' = r.ret
        /\ nextPid' = IF r.spawn THEN nextPid + 1 ELSE nextPid
        /\ instence' = IF r.store THEN Some(nextPid) ELSE instence
        /\ live' = IF r.spawn
                   THEN IF r.store THEN LiveAfterStore(live, instence, nextPid)
                        ELSE live \cup {nextPid}
                   ELSE live
        /\ UNCHANGED <<path, reaped>>

\* The steps of stop, lines 268-288. handle is self.instence; killOk whether
\* Child::kill returns Ok; chattrOk whether chattr can be spawned and waited
\* for; copyOk whether fs::copy of the resolver backup succeeds. All four
\* results are unwrapped. clear: whether the handle slot is emptied.
\* lines 285-287: None => { /* Not launch Clash yet... */ }
StopNoHandleRestores ==
    [ret |-> "Ok", effects |-> <<E("chattr", "ok"), E("restore", "ok")>>,
     killed |-> FALSE, waited |-> FALSE, clear |-> FALSE]
StopNoHandle ==
    [ret |-> "Ok", effects |-> <<>>, killed |-> FALSE, waited |-> FALSE,
     clear |-> FALSE]

StopSteps(handle, killOk, chattrOk, copyOk) ==
    IF handle = None THEN StopNoHandle
    ELSE IF ~killOk
    THEN [ret |-> "Panic", effects |-> <<E("kill", "panic")>>,
          killed |-> FALSE, waited |-> FALSE, clear |-> FALSE]
    ELSE IF ~chattrOk
    THEN [ret |-> "Panic",
          effects |-> <<E("kill", "ok"), E("wait", "ok"), E("chattr", "panic")>>,
          killed |-> TRUE, waited |-> TRUE, clear |-> FALSE]
    ELSE [ret |-> IF copyOk THEN "Ok" ELSE "Panic",
          effects |-> <<E("kill", "ok"), E("wait", "ok"), E("chattr", "ok"),
                        E("restore", IF copyOk THEN "ok" ELSE "panic")>>,
          killed |-> TRUE, waited |-> TRUE, clear |-> FALSE]

\* Child::kill on a child whose status wait() has already collected returns
\* Ok(()) or Err(InvalidInput), depending on the standard library built
\* against; on any other child of ours the signal is delivered.
KillOutcomes(handle) ==
    IF handle[1] \in reaped THEN {TRUE, FALSE} ELSE {TRUE}

Stop(killOk, chattrOk, copyOk) ==
    \E r \in {StopSteps(instence, killOk, chattrOk, copyOk)} :
        /\ instence # None => killOk \in KillOutcomes(instence)
        /\ callNo' = 1 - callNo
        /\ lastCall' = "stop"
        /\ hadHandle' = (instence # None)
        /\ effects' = r.effects
        /\ ret' = r.ret
        /\ live' = IF r.killed THEN live \ {instence[1]} ELSE live
        /\ reaped' = IF r.waited THEN reaped \cup {instence[1]} ELSE reaped
        /\ instence' = IF r.clear THEN None ELSE instence
        /\ UNCHANGED <<path, config, nextPid, runningConfig, providerFiles>>

UpdateConfigPath(p) ==
    /\ callNo' = 1 - callNo
    /\ lastCall' = "update_config_path"
    /\ hadHandle' = (instence # None)
    /\ config' = p
    /\ effects' = <<>>
    /\ ret' = "Ok"
    /\ UNCHANGED <<path, instence, live, reaped, nextPid, runningConfig,
                   providerFiles>>

\* The supervised process ends by itself; nothing in Clash observes it.
ProcessExit(p) ==
    /\ p \in live
    /\ live' = live \ {p}
    /\ UNCHANGED <<path, config, instence, reaped, nextPid, runningConfig,
                   providerFiles, callNo, lastCall, hadHandle, effects, ret>>

\* Clash::default
SupInit ==
    /\ path = "bin/core/clash"
    /\ config = "bin/core/config.yaml"
    /\ instence = None
    /\ live = {}
    /\ reaped = {}
    /\ nextPid = 1
    /\ runningConfig = NoFile
    /\ providerFiles = NoFiles
    /\ callNo = 0
    /\ lastCall = "none"
    /\ hadHandle = FALSE
    /\ effects = <<>>
    /\ ret = "Ok"

RunCall == \E p \in ConfigPaths : Run(p)

StopCall == \E killOk, chattrOk, copyOk \in BOOLEAN : Stop(killOk, chattrOk, copyOk)

UpdateConfigPathCall == \E p \in ConfigPaths : UpdateConfigPath(p)

ProcessExits == \E p \in Pids : ProcessExit(p)

(***************************************************************************)
(* ControlRuntime::run: the startup health check and the persistence loop, *)
(* and the settings writers it runs against.                               *)
(***************************************************************************)
Writers == 1..NumWriters

\* The settings file: absent, or the Settings last saved.
NoSettingsFile == [exists |-> FALSE, enable |-> FALSE, ver |-> 0]
Saved(s) == [exists |-> TRUE, enable |-> s.enable, ver |-> s.ver]

\* The guards of the loop thread: "state_r" is the State read guard of line
\* 111, alive until drop(state) at line 136; "settings_r" the Settings read
\* guard of line 120, alive until the end of the block at line 146.
LoopHoldsStateRead == "state_r" \in locks
SettingsReadNotHeld == FALSE
LoopHoldsSettingsRead == "settings_r" \in locks
WriterHoldsSettings == \E w \in Writers : wpc[w] = "settings_locked"
WriterHoldsState == \E w \in Writers : wpc[w] = "state_locked"

\* lines 90-102: [enable, reset]: Settings.enable after the check and whether
\* helper::reset_system_network is called. running is is_clash_running().
HealthCheckWhenRunning(enable, running) ==
    IF running /\ enable
    THEN [enable |-> FALSE, reset |-> TRUE]
    ELSE [enable |-> enable, reset |-> FALSE]
HealthCheckSteps(enable, running) ==
    IF ~running /\ enable
    THEN [enable |-> FALSE, reset |-> TRUE]
    ELSE [enable |-> enable, reset |-> FALSE]

\* ControlRuntime::run up to thread::spawn. resetOk is whether
\* reset_system_network succeeds; its Err is logged only.
HealthCheck(running, resetOk) ==
    \E h \in {HealthCheckSteps(settings.enable, running)} :
        /\ pc = "start"
        /\ IF settingsPoisoned    \* if let Ok(mut v) = runtime_settings.write()
           THEN UNCHANGED <<probe, settings, resets, resetFailed>>
           ELSE /\ probe' = running
                /\ settings' = [settings EXCEPT !.enable = h.enable]
                /\ resets' = IF h.reset THEN resets + 1 ELSE resets
                /\ resetFailed' = (h.reset /\ ~resetOk)
        /\ pc' = "read_state"
        /\ UNCHANGED <<dirty, disk, lockVars, loopLocals, iterEnd, enable0,
                       writes, writerVars>>

\* The locals of an iteration go out of scope at its end.
NoSnapshot == [enable |-> FALSE, ver |-> 0]
GuardsOutlive ==
    /\ observed' = FALSE
    /\ snapshot' = NoSnapshot
    /\ saveOk' = TRUE
    /\ UNCHANGED locks
DropLocals ==
    /\ observed' = FALSE
    /\ snapshot' = NoSnapshot
    /\ saveOk' = TRUE
    /\ locks' = {}

\* lines 115, 124, 141: continue. Where the loop thread is after a failed
\* lock acquisition: at the top of the loop.
OnLockErrorThreadEnds == "ended"
OnLockError == "read_state"

\* line 118: if state.dirty
AlwaysFlush(d) == TRUE
NeverFlush(d) == FALSE
ShouldFlush(d) == d

\* lines 111-118: runtime_state.read(), then the test of state.dirty
LoopReadState ==
    /\ pc = "read_state"
    /\ ~WriterHoldsState
    /\ IF statePoisoned
       THEN /\ pc' = OnLockError
            /\ iterEnd' = "abort_state_read"
            /\ UNCHANGED <<observed, locks>>
       ELSE IF ShouldFlush(dirty)
       THEN /\ pc' = "read_settings"
            /\ observed' = dirty
            /\ locks' = {"state_r"}
            /\ UNCHANGED iterEnd
       ELSE /\ pc' = "sleep"
            /\ iterEnd' = "clean"
            /\ UNCHANGED <<observed, locks>>
    /\ UNCHANGED <<settings, dirty, disk, lockVars, snapshot, saveOk,
                   healthVars, writes, writerVars>>

\* lines 120-127: runtime_settings.read(), then settings.clone()
LoopReadSettings ==
    /\ pc = "read_settings"
    /\ ~WriterHoldsSettings
    /\ IF settingsPoisoned
       THEN /\ pc' = OnLockError
            /\ iterEnd' = "abort_settings_read"
            /\ DropLocals
       ELSE /\ pc' = "save"
            /\ snapshot' = settings
            /\ locks' = locks \cup {"settings_r"}
            /\ UNCHANGED <<observed, saveOk, iterEnd>>
    /\ UNCHANGED <<settings, dirty, disk, lockVars, healthVars, writes,
                   writerVars>>

\* line 136: drop(state)
StateGuardKept(held) == held
DropStateGuard(held) == held \ {"state_r"}

\* lines 128-136: settings_json.save(..), its Err logged only, then drop(state)
LoopSave(ok) ==
    /\ pc = "save"
    /\ locks' = DropStateGuard(locks)
    /\ disk' = IF ok THEN Saved(snapshot) ELSE disk
    /\ saveOk' = ok
    /\ writes' = writes + 1
    /\ pc' = "clear_dirty"
    /\ UNCHANGED <<settings, dirty, lockVars, observed, snapshot, iterEnd,
                   healthVars, writerVars>>

LoopSaveOk == LoopSave(TRUE)
LoopSaveErr == LoopSave(FALSE)

\* line 144: state.dirty = false, whatever save returned
DirtyAfterFlush(saved, d) == FALSE

\* lines 137-146: runtime_state.write(), state.dirty = false, end of block
LoopClearDirty ==
    /\ pc = "clear_dirty"
    /\ ~WriterHoldsState /\ ~LoopHoldsStateRead
    /\ IF statePoisoned
       THEN /\ pc' = OnLockError
            /\ iterEnd' = "abort_state_write"
            /\ UNCHANGED <<dirty, writes>>
       ELSE /\ dirty' = DirtyAfterFlush(saveOk, dirty)
            /\ writes' = IF dirty' THEN writes ELSE 0
            /\ pc' = "sleep"
            /\ iterEnd' = "flushed"
    /\ DropLocals
    /\ UNCHANGED <<settings, disk, lockVars, healthVars, writerVars>>

\* line 147: thread::sleep(sleep_duration)
LoopSleep ==
    /\ pc = "sleep"
    /\ pc' = "read_state"
    /\ UNCHANGED <<settings, dirty, disk, lockVars, loopLocals, iterEnd,
                   healthVars, writes, writerVars>>

(***************************************************************************)
(* Settings writers (the RPC handlers registered in main.rs after          *)
(* runtime.run()): take the Settings write lock, mutate, release; then     *)
(* take the State write lock, set dirty, release. A writer that panics     *)
(* while it holds a lock poisons that lock; one that finds a lock          *)
(* poisoned gives up.                                                      *)
(***************************************************************************)
WriterLockSettings(w) ==
    /\ pc # "start"
    /\ wpc[w] = "idle"
    /\ settings.ver < MaxVer
    /\ ~WriterHoldsSettings /\ ~LoopHoldsSettingsRead
    /\ ~settingsPoisoned
    /\ wpc' = [wpc EXCEPT ![w] = "settings_locked"]
    /\ UNCHANGED <<settings, dirty, disk, lockVars, pc, loopLocals, iterEnd,
                   healthVars, writes, wver, marked>>

WriterMutate(w, b) ==
    /\ wpc[w] = "settings_locked"
    /\ settings' = [enable |-> b, ver |-> settings.ver + 1]
    /\ wver' = [wver EXCEPT ![w] = settings.ver + 1]
    /\ wpc' = [wpc EXCEPT ![w] = "mutated"]
    /\ UNCHANGED <<dirty, disk, lockVars, pc, loopLocals, iterEnd, healthVars,
                   writes, marked>>

WriterLockState(w) ==
    /\ wpc[w] = "mutated"
    /\ ~WriterHoldsState /\ ~LoopHoldsStateRead
    /\ IF statePoisoned
       THEN /\ wpc' = [wpc EXCEPT ![w] = "idle"]
            /\ wver' = [wver EXCEPT ![w] = 0]
       ELSE /\ wpc' = [wpc EXCEPT ![w] = "state_locked"]
            /\ UNCHANGED wver
    /\ UNCHANGED <<settings, dirty, disk, lockVars, pc, loopLocals, iterEnd,
                   healthVars, writes, marked>>

WriterSetDirty(w) ==
    /\ wpc[w] = "state_locked"
    /\ dirty' = TRUE
    /\ marked' = IF wver[w] > marked THEN wver[w] ELSE marked
    /\ wver' = [wver EXCEPT ![w] = 0]
    /\ wpc' = [wpc EXCEPT ![w] = "idle"]
    /\ UNCHANGED <<settings, disk, lockVars, pc, loopLocals, iterEnd,
                   healthVars, writes>>

WriterPanic(w) ==
    /\ wpc[w] \in {"settings_locked", "state_locked"}
    /\ settingsPoisoned' = (settingsPoisoned \/ wpc[w] = "settings_locked")
    /\ statePoisoned' = (statePoisoned \/ wpc[w] = "state_locked")
    /\ wpc' = [wpc EXCEPT ![w] = "dead"]
    /\ wver' = [wver EXCEPT ![w] = 0]
    /\ UNCHANGED <<settings, dirty, disk, pc, loopLocals, iterEnd, healthVars,
                   writes, marked>>

\* ControlRuntime::new: Settings::open(settings_path).unwrap_or_default(),
\* State::new(); no thread runs yet.
RtInit ==
    /\ enable0 \in BOOLEAN
    /\ settings = [enable |-> enable0, ver |-> 0]
    /\ disk \in {NoSettingsFile, Saved(settings)}
    /\ dirty = FALSE
    /\ settingsPoisoned = FALSE
    /\ statePoisoned = FALSE
    /\ pc = "start"
    /\ observed = FALSE
    /\ snapshot = NoSnapshot
    /\ saveOk = TRUE
    /\ locks = {}
    /\ iterEnd = "none"
    /\ probe = FALSE
    /\ resets = 0
    /\ resetFailed = FALSE
    /\ writes = 0
    /\ wpc = [w \in Writers |-> "idle"]
    /\ wver = [w \in Writers |-> 0]
    /\ marked = 0

(***************************************************************************)
(* Harness of change_config: one call on drawn inputs.                     *)
(***************************************************************************)
EntryShapes ==
    { Entry(S("u1"), Str(P_DotA)), Entry(S("u2"), Str(P_A)),
      Entry(S("u3"), Str(P_AbsE)), UrlOnly(S("u0")), PathOnly(Str(P_A)),
      S("not a mapping"), Entry(Num, Str(P_A)), Entry(S("u1"), Num) }

ProviderNames == <<"p1", "p2", "p3", "p4">>

ProviderMaps ==
    UNION { { [i \in 1..n |-> <<ProviderNames[i], f[i]>>] :
                f \in [1..n -> EntryShapes] } : n \in 0..MaxEntries }

DocWith(providers) ==
    MapV(<< <<"port", Num>>, <<"rules", SeqV(<<S("r1")>>)>>,
            <<"rule-providers", MapV(providers)>>, <<"tun", OldBlock>> >>)

\* Base documents with a rules list: the bypass rule absent, first, later or
\* repeated.
RuleValues == {BypassRule, S("r1"), S("r2")}
RuleLists == UNION {[1..n -> RuleValues] : n \in 0..MaxRules}
RulesDoc(rules) == MapV(<< <<"port", Num>>, <<"rules", SeqV(rules)>> >>)

\* Base documents that have, for each of the four keys change_config sets, no
\* such key, an old block under it, or a scalar; "port" and "mode" are keys
\* it does not know, "secret" a string that reads as a number.
BlockKeys == <<"external-controller", "tun", "dns", "profile">>
BlockShapes == {"absent", "map", "scalar"}
BlocksDoc(f) ==
    LET present == SelectSeq(<<1, 2, 3, 4>>, LAMBDA i : f[i] # "absent")
        old(i) == IF f[i] = "map" THEN OldBlock ELSE S("true")
    IN  MapV(<< <<"port", Num>> >>
             \o [j \in 1..Len(present) |->
                    <<BlockKeys[present[j]], old(present[j])>>]
             \o << <<"mode", S("rule")>>, <<"secret", S("7890")>> >>)

TransformFiles ==
    {ConfigFile(p) : p \in ConfigPaths}
        \cup {Yaml(DocWith(m)) : m \in ProviderMaps}
        \cup {Yaml(RulesDoc(r)) : r \in RuleLists}
        \cup {Yaml(BlocksDoc(f)) : f \in [1..4 -> BlockShapes]}
        \cup {Yaml(MapV(<< <<"rule-providers", S("x")>> >>)),
              Yaml(MapV(<< <<"rules", S("x")>> >>))}

OldFiles == [p \in SavePaths |-> File(<<"old">>)]

NotCalled ==
    [res |-> "NotCalled", running |-> NoFile, files |-> NoFiles,
     dl |-> NoDownload(NoFiles)]

TIdle ==
    /\ tIn = [file |-> Missing, outs |-> <<>>, writeOk |-> TRUE,
              running |-> NoFile, files |-> NoFiles]
    /\ tOut = NotCalled
    /\ tAgain = NotCalled

TInit ==
    /\ \E file \in TransformFiles :
         \E outs \in OutcomesFor(ProvidersOf(file)) :
           \E writeOk \in BOOLEAN :
             \E before \in {<<NoFile, NoFiles>>, <<File(to_string(PlainDoc)), OldFiles>>} :
                tIn = [file |-> file, outs |-> outs, writeOk |-> writeOk,
                       running |-> before[1], files |-> before[2]]
    /\ tOut = NotCalled
    /\ tAgain = NotCalled

ChangeConfigCall ==
    /\ tOut.res = "NotCalled"
    /\ tOut' = change_config(tIn.file, tIn.outs, tIn.writeOk, tIn.running,
                             tIn.files)
    /\ UNCHANGED <<tIn, tAgain>>

\* lines 297-298 on a file of the disk: fs::read_to_string, then from_str
ReadFile(f) == IF f.exists THEN Yaml(from_str(f.body)) ELSE Missing

\* A second call, with self.config naming the running-config file the first
\* call wrote.
ChangeConfigAgain ==
    /\ tOut.res = "Ok"
    /\ tAgain.res = "NotCalled"
    /\ \E file \in {ReadFile(tOut.running)} :
         \E outs \in OutcomesFor(ProvidersOf(file)) :
           \E writeOk \in BOOLEAN :
              tAgain' = change_config(file, outs, writeOk, tOut.running,
                                      tOut.files)
    /\ UNCHANGED <<tIn, tOut>>

(***************************************************************************)
(* Specifications.                                                         *)
(***************************************************************************)
\* The supervisor under any sequence of calls.
Init == SupInit /\ RtInit /\ enable0 = FALSE /\ disk = NoSettingsFile /\ TIdle

Next ==
    \/ RunCall /\ UNCHANGED <<rtVars, tVars>>
    \/ StopCall /\ UNCHANGED <<rtVars, tVars>>
    \/ UpdateConfigPathCall /\ UNCHANGED <<rtVars, tVars>>
    \/ ProcessExits /\ UNCHANGED <<rtVars, tVars>>

Spec == Init /\ [][Next]_vars

\* ControlRuntime::run against the settings writers.
PersistInit == SupInit /\ RtInit /\ TIdle

LoopStep ==
    \/ LoopReadState
    \/ LoopReadSettings
    \/ LoopSaveOk
    \/ LoopClearDirty
    \/ LoopSleep

WriterStep(w) ==
    \/ WriterLockSettings(w)
    \/ \E b \in BOOLEAN : WriterMutate(w, b)
    \/ WriterLockState(w)
    \/ WriterSetDirty(w)

PersistNext ==
    \/ (\E running, resetOk \in BOOLEAN : HealthCheck(running, resetOk))
          /\ UNCHANGED <<supVars, tVars>>
    \/ LoopStep /\ UNCHANGED <<supVars, tVars>>
    \/ LoopSaveErr /\ UNCHANGED <<supVars, tVars>>
    \/ (\E w \in Writers : WriterStep(w)) /\ UNCHANGED <<supVars, tVars>>
    \/ (\E w \in Writers : WriterPanic(w)) /\ UNCHANGED <<supVars, tVars>>

PersistSpec == PersistInit /\ [][PersistNext]_vars

\* The same with no writer panicking and every save succeeding, under fair
\* scheduling: a thread that can take its next step, or that waits for a lock
\* which keeps being released, eventually takes that step. No writer has to
\* start an operation.
PersistLiveNext ==
    \/ (\E running, resetOk \in BOOLEAN : HealthCheck(running, resetOk))
          /\ UNCHANGED <<supVars, tVars>>
    \/ LoopStep /\ UNCHANGED <<supVars, tVars>>
    \/ (\E w \in Writers : WriterStep(w)) /\ UNCHANGED <<supVars, tVars>>

RuntimeThreadStep ==
    /\ \/ \E running, resetOk \in BOOLEAN : HealthCheck(running, resetOk)
       \/ LoopStep
    /\ UNCHANGED <<supVars, tVars>>

WriterProgress(w) ==
    /\ \/ \E b \in BOOLEAN : WriterMutate(w, b)
       \/ WriterLockState(w)
       \/ WriterSetDirty(w)
    /\ UNCHANGED <<supVars, tVars>>

PersistFairness ==
    /\ SF_vars(RuntimeThreadStep)
    /\ \A w \in Writers : SF_vars(WriterProgress(w))

PersistLive == PersistInit /\ [][PersistLiveNext]_vars /\ PersistFairness

\* ControlRuntime::run against writers that may panic and saves that may
\* fail, under the same fair scheduling.
PersistFaulty == PersistInit /\ [][PersistNext]_vars /\ PersistFairness

\* One call of change_config, and a second one on what it wrote.
TransformInit == SupInit /\ RtInit /\ enable0 = FALSE /\ disk = NoSettingsFile /\ TInit

TransformNext ==
    \/ ChangeConfigCall /\ UNCHANGED <<supVars, rtVars>>
    \/ ChangeConfigAgain /\ UNCHANGED <<supVars, rtVars>>

TransformSpec == TransformInit /\ [][TransformNext]_vars

(***************************************************************************)
(* Claims about the Process Supervisor, under Spec.                        *)
(***************************************************************************)
\* A step that is a call of a Clash method.
IsCall(name) == callNo' # callNo /\ lastCall' = name

\* C1: after any sequence of run and stop calls, at most one process spawned
\* by the supervisor is alive; a run made while the handle slot is occupied
\* never leaves two spawned, not yet terminated processes.
C1_AtMostOneLiveProcess == Cardinality(live) <= 1

\* C2: whenever stop returns after being called with a handle present, the
\* handle slot is empty, and a stop that follows it at once performs no kill,
\* no wait and no DNS restore.
C2_StopDestroysHandle ==
    [][IsCall("stop") =>
          /\ (instence # None /\ ret' = "Ok") => instence' = None
          /\ (lastCall = "stop" /\ hadHandle /\ ret = "Ok") => effects' = <<>>
      ]_vars

\* C3: stop on a supervisor whose handle slot is empty returns without error,
\* performs no process operation and no filesystem operation, and leaves the
\* executable path, the config path and the handle as they were.
C3_StopWithoutHandleIsNoOp ==
    [][(IsCall("stop") /\ instence = None) =>
          /\ ret' = "Ok"
          /\ effects' = <<>>
          /\ UNCHANGED <<path, config, instence, live, reaped, nextPid,
                         runningConfig, providerFiles>>
      ]_vars

\* C3's case: a stop was called on an empty handle slot.
C3_Witness == lastCall = "stop" /\ ~hadHandle /\ instence = None

RunOrder == <<"transform", "spawn", "store", "net_apply">>

\* C4: within one run the steps are transform, spawn, store handle,
\* network-apply, in this order, each only if the one before succeeded. If the
\* transformer fails, run returns ConfigFormatError, spawns nothing and leaves
\* the handle slot alone; if spawn fails, run returns an error, leaves the
\* handle slot alone and does not invoke network-apply; if network-apply
\* fails, run returns NetworkError and the process this call spawned is
\* running and held in the handle slot.
C4_RunStepsInOrder ==
    [][IsCall("run") =>
          LET e == effects' IN
          /\ Len(e) \in 1..4
          /\ \A i \in 1..Len(e) : e[i].op = RunOrder[i]
          /\ \A i \in 2..Len(e) : e[i - 1].out = "ok"
          /\ (live' # live) <=> (Len(e) >= 2 /\ e[2].out = "ok")
          /\ (instence' # instence) => (Len(e) >= 3 /\ e[3].out = "ok")
          /\ e[1].out = "err" =>
                /\ ret' = "ConfigFormatError"
                /\ UNCHANGED <<instence, live, nextPid>>
          /\ (Len(e) >= 2 /\ e[2].out = "err") =>
                /\ ret' = "Default"
                /\ UNCHANGED <<instence, live, nextPid>>
          /\ (Len(e) = 4 /\ e[4].out = "err") =>
                /\ ret' = "NetworkError"
                /\ instence' = Some(nextPid)
                /\ nextPid \notin live /\ nextPid \in live'
      ]_vars

\* C4's case: a run whose network-apply failed, made while a handle was held.
C4_Witness ==
    /\ lastCall = "run" /\ ret = "NetworkError" /\ hadHandle
    /\ instence # None /\ instence[1] \in live

(***************************************************************************)
(* Claims about the Persistence Loop, under PersistSpec and PersistLive.   *)
(***************************************************************************)
\* C5: dirty goes from true to false only by the Persistence Loop, and only
\* in an iteration whose write of the settings file succeeded; an iteration
\* whose write failed leaves dirty true.
C5_ClearedOnlyAfterSuccessfulWrite ==
    [][(dirty /\ ~dirty') => (pc = "clear_dirty" /\ saveOk)]_vars

\* C6: under any interleaving with the writers, the loop writes the settings
\* file in no iteration that observed dirty false, and writes it at most once
\* for each transition of dirty from true to false.
C6_OneWritePerFlush ==
    [][(writes' # writes /\ writes' # 0) =>
          (pc = "save" /\ observed /\ dirty /\ writes = 0 /\ writes' = 1)
      ]_vars

\* C6's case: the loop has written the file while a writer, having mutated
\* Settings again, waits to set dirty.
C6_Witness ==
    /\ writes = 1 /\ pc = "clear_dirty"
    /\ \E w \in Writers : wpc[w] = "mutated"

\* C7: if a writer mutates Settings and then sets dirty, no lock is poisoned
\* and the file write succeeds, then under fair scheduling the loop
\* eventually writes the settings file with that mutation or a later one and
\* clears dirty; dirty never stays true forever.
C7_FlushHappens ==
    /\ dirty ~> ~dirty
    /\ \A v \in 1..MaxVer :
          (marked >= v) ~> (disk.exists /\ disk.ver >= v /\ ~dirty)

\* C7's case: a mutation whose writer set dirty is on disk and dirty is clear.
C7_Witness ==
    /\ marked >= 1 /\ disk.exists /\ disk.ver >= marked
    /\ ~dirty /\ iterEnd = "flushed"

\* C8: if Settings.enable is true and the probe returns false, then after the
\* health check enable is false and network-reset has been invoked exactly
\* once, and its failure does not keep the loop from starting; in every other
\* case enable is unchanged and network-reset is not invoked.
C8_HealthCheck ==
    [][/\ (pc = "start" /\ pc' # "start") =>
            /\ pc' = "read_state"
            /\ IF settings.enable /\ ~probe'
               THEN ~settings'.enable /\ resets' = resets + 1
               ELSE settings' = settings /\ resets' = resets /\ ~resetFailed'
       /\ (resets' # resets) => (pc = "start" /\ resets = 0)
      ]_vars

\* C8's case: enable was true, the probe false, network-reset failed, and the
\* loop has gone through an iteration.
C8_Witness ==
    /\ enable0 /\ ~probe /\ resets = 1 /\ resetFailed
    /\ ~settings.enable /\ iterEnd = "clean"

(***************************************************************************)
(* Claims about the Config Transformer and the Rule-Provider Downloader,   *)
(* under TransformSpec.                                                    *)
(***************************************************************************)
Called == tOut.res # "NotCalled"
Downloaded == tOut.dl.res # "NotCalled"

\* The entries of the call's rule-providers mapping, and those among them that
\* have both a url and a path.
InEntries == ProvidersOf(tIn.file)
BothFields(i) ==
    ValueHas(InEntries[i][2], "url") /\ ValueHas(InEntries[i][2], "path")
UrlOf(i) == ValueGet(InEntries[i][2], "url")
PathOf(i) == ValueGet(InEntries[i][2], "path")
Range(q) == {q[i] : i \in 1..Len(q)}
Increasing(q) == \A i, j \in 1..Len(q) : i < j => q[i] < q[j]

\* C9: when the base document has a rule-providers entry with both url and
\* path whose fetch fails, the transform returns an error of kind
\* RuleProviderDownloadError, which is not the error a document that fails to
\* parse gets, and the running-config file is as it was before the call.
C9_FailedFetchWritesNothing ==
    Called =>
      /\ (\E i \in Range(tOut.dl.fetched) :
              BothFields(i) /\ tIn.outs[i] = "send_err") =>
            /\ tOut.res = "RuleProviderDownloadError"
            /\ tOut.running = tIn.running
      /\ tIn.file.k = "garbage" =>
            /\ tOut.res \notin {"Ok", "RuleProviderDownloadError"}
            /\ tOut.running = tIn.running

\* C9's case: the second entry's fetch failed after the first was saved, with
\* a running-config file already there.
C9_Witness ==
    /\ Called /\ tOut.dl.fetched = <<1, 2>> /\ tOut.dl.written = <<1>>
    /\ tIn.outs[2] = "send_err" /\ tIn.running.exists

\* The first entry with both fields that does not get fetched and saved: its
\* url or path is no string, or its fetch, decode, mkdir or write fails.
Bad(i) ==
    /\ BothFields(i)
    /\ UrlOf(i).t # "str" \/ PathOf(i).t # "str" \/ tIn.outs[i] # "ok"
FirstBad ==
    IF \E i \in 1..Len(InEntries) : Bad(i)
    THEN CHOOSE i \in 1..Len(InEntries) :
            Bad(i) /\ \A j \in 1..(i - 1) : ~Bad(j)
    ELSE Len(InEntries) + 1

\* The content of save path sp once the entries in the set done are saved, in
\* mapping order.
ExpectedFile(sp, done) ==
    LET hits == {i \in done : SavePath(PathOf(i).v) = sp}
    IN  IF hits = {} THEN tIn.files[sp]
        ELSE File(UrlOf(CHOOSE i \in hits : \A j \in hits : j <= i).v)

\* C10: the downloader takes the entries in mapping order; an entry missing
\* url or path is skipped with no error, fetch or file write; at the first
\* entry whose fetch, decode, directory creation or write fails it returns
\* RuleProviderDownloadError, no later entry is fetched or written and the
\* files of the earlier entries remain; it returns Ok only if every entry
\* with both fields was fetched and written.
C10_FailFastInOrder ==
    Downloaded =>
      LET d == tOut.dl
          before == {i \in 1..(FirstBad - 1) : BothFields(i)}
      IN  /\ Increasing(d.fetched) /\ Increasing(d.written)
          /\ \A i \in Range(d.fetched) \cup Range(d.written) : BothFields(i)
          /\ Range(d.written) = before
          /\ before \subseteq Range(d.fetched)
          /\ Range(d.fetched) \subseteq before \cup {FirstBad}
          /\ \A sp \in SavePaths : d.files[sp] = ExpectedFile(sp, before)
          /\ (FirstBad <= Len(InEntries) /\ UrlOf(FirstBad).t = "str"
                 /\ (tIn.outs[FirstBad] \in {"send_err", "decode_err"}
                       \/ (PathOf(FirstBad).t = "str"
                            /\ tIn.outs[FirstBad] # "ok")))
                => d.res = "RuleProviderDownloadError"
          /\ d.res = "Ok" <=> FirstBad > Len(InEntries)

\* C10's case: an entry was saved, and the next one's write failed.
C10_Witness ==
    /\ Downloaded /\ tOut.dl.res = "RuleProviderDownloadError"
    /\ tOut.dl.fetched = <<1, 2>> /\ tOut.dl.written = <<1>>
    /\ tIn.outs[2] = "write_err" /\ tIn.files = OldFiles

\* The base document the call read and, after a call that returned Ok, the
\* document the running-config file holds.
InDoc == tIn.file.doc
OutDoc == from_str(tOut.running.body)
HasRulesList ==
    /\ tIn.file.k = "yaml" /\ InDoc.t = "map"
    /\ Has(InDoc.v, "rules") /\ Get(InDoc.v, "rules").t = "seq"

\* C11: when the base document has a rules list and the transform succeeds,
\* the rules list of the output document is the literal bypass rule followed
\* by the input rules in their order, whether the input list held the bypass
\* rule nowhere, first or later.
C11_BypassRuleFirst ==
    (tOut.res = "Ok" /\ HasRulesList) =>
        /\ OutDoc.t = "map" /\ Has(OutDoc.v, "rules")
        /\ Get(OutDoc.v, "rules").t = "seq"
        /\ Get(OutDoc.v, "rules").v[1] = BypassRule
        /\ Get(OutDoc.v, "rules").v = <<BypassRule>> \o Get(InDoc.v, "rules").v

\* C11's case: the input list held the bypass rule at a later position.
C11_Witness ==
    /\ tOut.res = "Ok" /\ HasRulesList
    /\ Get(InDoc.v, "rules").v = <<S("r1"), BypassRule>>
    /\ Get(OutDoc.v, "rules").v = <<BypassRule, S("r1"), BypassRule>>

Count(m, k) == Cardinality({i \in 1..Len(m) : m[i][1] = k})
Literal(k) ==
    CASE k = "external-controller" -> ExternalController
      [] k = "tun" -> TunConfig
      [] k = "dns" -> DnsConfig
      [] k = "profile" -> ProfileConfig
SetKeys == {BlockKeys[j] : j \in 1..Len(BlockKeys)}

\* C12: when the transform succeeds, whether or not the base document had
\* the keys external-controller, tun, dns and profile, the output document
\* has each of them exactly once, external-controller being "127.0.0.1:9090"
\* and tun, dns and profile the literal recommended blocks with no field of
\* an old block kept; every other top-level key of the base document except
\* rules and external-ui is in the output with its value unchanged.
C12_ReplaceNotMerge ==
    tOut.res = "Ok" =>
        /\ OutDoc.t = "map"
        /\ \A k \in SetKeys :
              Count(OutDoc.v, k) = 1 /\ Get(OutDoc.v, k) = Literal(k)
        /\ \A i \in 1..Len(InDoc.v) :
              LET k == InDoc.v[i][1] IN
              k \notin SetKeys \cup {"rules", "external-ui"} =>
                  Count(OutDoc.v, k) = 1 /\ Get(OutDoc.v, k) = InDoc.v[i][2]

\* C12's case: the base document had an old tun block and no dns key.
C12_Witness ==
    /\ tOut.res = "Ok"
    /\ Has(InDoc.v, "tun") /\ Get(InDoc.v, "tun") = OldBlock
    /\ ~Has(InDoc.v, "dns") /\ Has(InDoc.v, "secret")
    /\ Get(OutDoc.v, "tun") = TunConfig /\ Get(OutDoc.v, "dns") = DnsConfig

\* The document the running-config file holds after the second call.
AgainDoc == from_str(tAgain.running.body)

\* C13: when the transform succeeds on a base document d and then on its own
\* output T(d), the second output has external-controller, tun, dns and
\* profile exactly once each and identical to those of T(d), which are the
\* literal blocks: nothing is duplicated and nothing merged.
C13_Idempotent ==
    tAgain.res = "Ok" =>
        /\ AgainDoc.t = "map"
        /\ \A k \in SetKeys :
              /\ Count(OutDoc.v, k) = 1 /\ Count(AgainDoc.v, k) = 1
              /\ Get(AgainDoc.v, k) = Get(OutDoc.v, k)
              /\ Get(AgainDoc.v, k) = Literal(k)

\* C13's case: both calls succeeded on a base document with old blocks and
\* two rules; the second call has put the bypass rule in once more.
C13_Witness ==
    /\ tAgain.res = "Ok" /\ tIn.file = Yaml(FullDoc)
    /\ Get(AgainDoc.v, "tun") = TunConfig
    /\ Get(AgainDoc.v, "rules").v
          = <<BypassRule, BypassRule, S("r1"), S("r2")>>

\* Where the claim puts the file of provider path p, and whether a path lies
\* under the providers root: it starts with the root and no component of it
\* is "..".
ResolvedUnderRoot(p) ==
    IF Len(p) >= 2 /\ p[1] = "." /\ p[2] = "/"
    THEN ProvidersRoot \o SubSeq(p, 3, Len(p))
    ELSE ProvidersRoot \o p
HasDotDot(p) ==
    \E i \in 1..(Len(p) - 1) :
        /\ p[i] = "." /\ p[i + 1] = "."
        /\ i = 1 \/ p[i - 1] = "/"
        /\ i + 1 = Len(p) \/ p[i + 2] = "/"
UnderRoot(sp) ==
    /\ Len(sp) > Len(ProvidersRoot)
    /\ SubSeq(sp, 1, Len(ProvidersRoot)) = ProvidersRoot
    /\ ~HasDotDot(sp)

\* C14: the file of a provider path that starts with "./" is written at the
\* providers root followed by the path without that one "./", the file of
\* any other provider path at the providers root followed by the path; either
\* way the file written lies under the providers root.
C14_ProviderPathUnderRoot ==
    Downloaded =>
        \A j \in 1..Len(tOut.dl.written) :
            LET p == PathOf(tOut.dl.written[j]).v
                sp == tOut.dl.saved[j]
            IN  /\ sp = ResolvedUnderRoot(p)
                /\ UnderRoot(sp)
                /\ tOut.dl.files[sp].exists

(***************************************************************************)
(* Further claims about the Persistence Loop and its locks.                *)
(***************************************************************************)
\* No settings writer is in the middle of its operation and the loop is
\* between two iterations (the state right after the health check included).
Quiescent ==
    /\ pc \in {"read_state", "sleep"}
    /\ \A w \in Writers : wpc[w] = "idle"

\* The settings file holds what Settings holds in memory. (With no settings
\* file there is no on-disk copy to differ from.)
OnDiskIsInMemory == disk.exists => disk.enable = settings.enable

\* C15: in every state where no writer is in the middle of its operation and
\* the loop is not in the middle of an iteration, the state right after the
\* startup health check included, dirty == false implies that the on-disk
\* settings equal the in-memory Settings.
C15_DirtyInvariant == (Quiescent /\ ~dirty) => OnDiskIsInMemory

\* C16 as stated: the loop holds no lock on Settings or RuntimeState while it
\* writes the settings file, and none while it sleeps between iterations.
C16_NoLockDuringIO == pc \in {"save", "sleep"} => locks = {}

\* C16, amended: the loop holds the RuntimeState read lock and the Settings
\* read lock while it writes the settings file; it holds no lock while it
\* sleeps between iterations.
C16_LocksDuringSaveNoneDuringSleep ==
    /\ pc = "save" => locks = {"state_r", "settings_r"}
    /\ pc = "sleep" => locks = {}

\* C16's case: the loop has written the settings file, cleared dirty, and
\* sleeps.
C16_Witness ==
    /\ pc = "sleep" /\ iterEnd = "flushed" /\ disk.exists /\ disk.ver >= 1

\* C17: a failed lock acquisition aborts only the iteration it happens in.
\* After a failed RuntimeState read nothing is written; after a failed
\* Settings read the file is not written and dirty is not cleared; after a
\* failed RuntimeState write dirty is not cleared. In each case the thread
\* is back at the top of the loop with no guard held, and the loop begins
\* iterations for ever.
C17_LockFailureAbortsIteration ==
    /\ [][(pc = "read_state" /\ statePoisoned) =>
              /\ pc' = "read_state" /\ locks' = {}
              /\ disk' = disk /\ writes' = writes]_vars
    /\ [][(pc = "read_settings" /\ pc' # pc /\ settingsPoisoned) =>
              /\ pc' = "read_state" /\ locks' = {}
              /\ iterEnd' = "abort_settings_read"
              /\ disk' = disk /\ writes' = writes /\ dirty' = dirty]_vars
    /\ [][(pc = "clear_dirty" /\ pc' # pc /\ statePoisoned) =>
              /\ pc' = "read_state" /\ locks' = {}
              /\ iterEnd' = "abort_state_write"
              /\ disk' = disk /\ dirty' = dirty]_vars
    /\ [](pc \in {"start", "read_state", "read_settings", "save",
                   "clear_dirty", "sleep"})
    /\ []<>(pc = "read_state")

\* C17's case: the RuntimeState write failed after the file was written, and
\* the loop is in a later iteration, whose RuntimeState read failed too.
C17_Witness ==
    /\ statePoisoned /\ dirty /\ writes >= 1
    /\ iterEnd = "abort_state_read" /\ pc = "read_state"

\* C18: on every input document that is valid YAML, a top level that is no
\* mapping, a rules value that is no list, a rule-providers value that is no
\* mapping and a url or path that is no string included, the transform
\* returns Ok or an error value; it never panics. Checked under TransformSpec.
C18_TransformerTotal ==
    (Called /\ tIn.file.k = "yaml") =>
        tOut.res \in {"Ok", "IoError", "YamlError", "RuleProviderDownloadError"}

\* C19: the loop keeps the Settings read guard from the moment it reads
\* Settings until it has cleared dirty, no mutation of Settings happens in
\* between, and when dirty is cleared after a successful write the settings
\* file holds the in-memory Settings.
C19_SnapshotConsistency ==
    /\ [](pc \in {"save", "clear_dirty"} =>
             "settings_r" \in locks /\ ~WriterHoldsSettings)
    /\ [](pc = "save" => snapshot = settings)
    /\ [][(pc \in {"save", "clear_dirty"}) => (settings' = settings)]_vars
    /\ [][(pc = "clear_dirty" /\ pc' = "sleep" /\ saveOk) =>
              ~dirty' /\ disk' = Saved(settings')]_vars

\* C19's case: two mutations were made, and the loop has flushed and cleared
\* dirty with the second on disk.
C19_Witness ==
    /\ iterEnd = "flushed" /\ ~dirty
    /\ settings.ver >= 2 /\ disk = Saved(settings)

\* C20: the loop takes the Settings read lock while it holds the State read
\* lock, and the State write lock while it holds the Settings read lock and
\* no longer the State read lock; against writers that take the Settings
\* write lock, mutate, release it and then take the State write lock to set
\* dirty, some thread can always take a step, every iteration of the loop
\* completes and every operation of a writer completes.
C20_NoDeadlock ==
    /\ [][(pc = "read_settings" /\ pc' = "save") =>
              locks = {"state_r"} /\ locks' = {"state_r", "settings_r"}]_vars
    /\ [][(pc = "clear_dirty" /\ pc' = "sleep") =>
              locks = {"settings_r"}]_vars
    /\ [](\/ ENABLED RuntimeThreadStep
          \/ \E w \in Writers : ENABLED WriterProgress(w))
    /\ (pc # "sleep") ~> (pc = "sleep")
    /\ \A w \in Writers : (wpc[w] # "idle") ~> (wpc[w] = "idle")

\* C20's case: the loop, holding the Settings read lock, waits for the State
\* write lock that a writer holds.
C20_Witness ==
    /\ pc = "clear_dirty" /\ locks = {"settings_r"}
    /\ \E w \in Writers : wpc[w] = "state_locked"

====
